---- MODULE Spec2Model ----
(***************************************************************************)
(* Model of the clone-on-consume pointer MuCow<'a, B> of src/src/lib.rs,   *)
(* instantiated at B = Vec<i32> (B::Owned = Vec<i32>, to_owned = clone),   *)
(* with a clone-counting view of B: every call of to_owned is counted.     *)
(*                                                                         *)
(* heap   : the externally owned data a Borrowed instance refers to        *)
(* cow    : the live MuCow instances, one per variable slot of the caller  *)
(* clones : number of to_owned calls made so far (the clone counter)       *)
(* dup    : <<s, t>> while the instance in slot t is the duplicate made by *)
(*          the latest s.clone() and both instances are still alive        *)
(* last   : the most recent call: operation, receiver before the call,     *)
(*          the data it viewed, the returned value (under the name of the  *)
(*          operation), the clone counter                                  *)
(*          before the call, and whether the owner of a referent has       *)
(*          written to its data since the call returned                    *)
(***************************************************************************)
EXTENDS Integers, Sequences, FiniteSets

VARIABLES heap, cow, clones, dup, last

vars == <<heap, cow, clones, dup, last>>

\* ---------------------------------------------------------------- bounds
MaxLen == 4
MaxClones == 2

\* the caller's variables holding MuCow instances, and the external referents
Slots == {"x", "y"}
Refs == {"a", "b"}

\* the data of the referents at the start, the values the caller builds Owned
\* instances from, and the elements it appends through a mutable reference
InitData == {<<1, 2, 3>>}
OwnedData == {<<1, 2, 3>>}
PushElems == {4}

NoRef == "none"
NoSlot == "none"
NoVal == <<-1>>

\* ---------------------------------------------------------------- the type
\* enum MuCow { Borrowed(&'a mut B), Owned(B::Owned) }; Moved is a slot whose
\* value was never initialised, was consumed or was dropped.
\* life is the lifetime parameter 'a of the value's type MuCow<'a, B>: the
\* referent whose exclusive borrow lasts while the value is alive, or NoRef
\* when 'a is tied to no borrow.
Borrowed(r) == [tag |-> "Borrowed", ref |-> r, val |-> NoVal, life |-> r]
Owned(v) == [tag |-> "Owned", ref |-> NoRef, val |-> v, life |-> NoRef]
Moved == [tag |-> "Moved", ref |-> NoRef, val |-> NoVal, life |-> NoRef]

\* the value c at the type MuCow<'a, B> whose 'a is the borrow of l
Within(c, l) == [c EXCEPT !.life = l]

\* std::borrow::Cow { Borrowed(&'a B), Owned(B::Owned) }
CowBorrowed(r) == [tag |-> "Cow::Borrowed", ref |-> r, val |-> NoVal]
CowOwned(v) == [tag |-> "Cow::Owned", ref |-> NoRef, val |-> v]

\* What a method call yields: the receiver afterwards (Moved when the method
\* takes self by value), the returned value, the number of to_owned calls made.
Res(self, ret, cl) == [self |-> self, ret |-> ret, cl |-> cl]

\* ---------------------------------------------------------------- B = Vec<i32>
\* <Vec<i32> as ToOwned>::to_owned: a new vector with a copy of each element
ToOwned(d) == [i \in 1..Len(d) |-> d[i]]

\* <Vec<i32> as Default>::default
DefaultOwned == <<>>

\* Vec::push
Push(d, e) == Append(d, e)

\* <Vec<i32> as PartialEq>::eq: equal lengths and equal elements
PartialEq(d1, d2) ==
    /\ Len(d1) = Len(d2)
    /\ \A i \in 1..Len(d1) : d1[i] = d2[i]

\* <Vec<i32> as Ord>::cmp: the first differing element decides, then the lengths
RECURSIVE CmpFrom(_, _, _)
CmpFrom(d1, d2, i) ==
    IF i > Len(d1) \/ i > Len(d2)
    THEN IF Len(d1) < Len(d2) THEN "Less"
         ELSE IF Len(d1) > Len(d2) THEN "Greater" ELSE "Equal"
    ELSE IF d1[i] < d2[i] THEN "Less"
         ELSE IF d1[i] > d2[i] THEN "Greater"
         ELSE CmpFrom(d1, d2, i + 1)

OrdCmp(d1, d2) == CmpFrom(d1, d2, 1)

\* <Vec<i32> as PartialOrd>::partial_cmp: i32 is totally ordered, always Some
PartialOrdCmp(d1, d2) == [some |-> OrdCmp(d1, d2)]

\* <Vec<i32> as Hash>::hash: the length prefix, then every element, is written
\* to the hasher; a hasher state is the sequence of words written to it.
HashData(d, state) == state \o <<Len(d)>> \o d

\* ---------------------------------------------------------------- references
\* A reference returned by deref / deref_mut points either at a referent of the
\* heap or into the receiver's own Owned payload.
HeapPlace(r) == [loc |-> "heap", at |-> r]
OwnPlace == [loc |-> "own", at |-> NoRef]

\* reading through a reference obtained from instance c
Load(c, p) == IF p.loc = "heap" THEN heap[p.at] ELSE c.val

\* ---------------------------------------------------------------- MuCow methods
\* Each method is applied to a live instance c (c.tag is Borrowed or Owned).

\* deref that promotes a Borrowed receiver to Owned before handing out the view
deref_promoting(c) ==
    IF c.tag = "Borrowed"
    THEN Res(Within(Owned(ToOwned(heap[c.ref])), c.life), OwnPlace, 1)
    ELSE Res(c, OwnPlace, 0)

\* Deref::deref(&self) -> &B
deref(c) ==
    IF c.tag = "Borrowed"
    THEN Res(c, HeapPlace(c.ref), 0)
    ELSE Res(c, OwnPlace, 0)

\* deref_mut in the manner of Cow::to_mut: clone on first mutable access
deref_mut_to_mut(c) ==
    IF c.tag = "Borrowed"
    THEN Res(Within(Owned(ToOwned(heap[c.ref])), c.life), OwnPlace, 1)
    ELSE Res(c, OwnPlace, 0)

\* DerefMut::deref_mut(&mut self) -> &mut B
deref_mut(c) ==
    IF c.tag = "Borrowed"
    THEN Res(c, HeapPlace(c.ref), 0)
    ELSE Res(c, OwnPlace, 0)

\* Borrow::borrow(&self) -> &B is &**self
borrow(c) == deref(c)

\* BorrowMut::borrow_mut(&mut self) -> &mut B is &mut **self
borrow_mut(c) == deref_mut(c)

\* AsRef::as_ref(&self) -> &T is self, coerced through Deref
as_ref(c) == deref(c)

\* the expression &**self, read: the data the instance currently views
View(c) == Load(c, deref(c).ret)

\* into_owned that hands out the referent's data without cloning it
into_owned_uncounted(c) ==
    IF c.tag = "Borrowed"
    THEN Res(Moved, heap[c.ref], 0)
    ELSE Res(Moved, c.val, 0)

\* into_owned that clones the view whatever the variant
into_owned_always(c) == Res(Moved, ToOwned(View(c)), 1)

\* MuCow::into_owned(self) -> B::Owned
into_owned(c) ==
    IF c.tag = "Borrowed"
    THEN Res(Moved, ToOwned(heap[c.ref]), 1)
    ELSE Res(Moved, c.val, 0)

\* clone in the manner of Cow::clone: a Borrowed receiver yields Borrowed
clone_reborrow(c) ==
    IF c.tag = "Borrowed"
    THEN Res(c, Borrowed(c.ref), 0)
    ELSE Res(c, Within(Owned(ToOwned(c.val)), c.life), 1)

\* clone as a bitwise copy of the enum
clone_bitwise(c) == Res(c, c, 0)

\* clone that builds the duplicate from the default value
clone_default(c) == Res(c, Within(Owned(DefaultOwned), c.life), 0)

\* Clone::clone(&self) -> MuCow<'a, B>: the duplicate is Owned, and its type
\* keeps the receiver's lifetime 'a
clone(c) == Res(c, Within(Owned(ToOwned(View(c))), c.life), deref(c).cl + 1)

\* conversion that always materialises an owned Cow
into_cloning(c) ==
    IF c.tag = "Borrowed"
    THEN Res(Moved, CowOwned(ToOwned(heap[c.ref])), 1)
    ELSE Res(Moved, CowOwned(c.val), 0)

\* Into<Cow<'a, B>>::into(self) -> Cow<'a, B>
into(c) ==
    IF c.tag = "Borrowed"
    THEN Res(Moved, CowBorrowed(c.ref), 0)
    ELSE Res(Moved, CowOwned(c.val), 0)

\* Default::default() -> MuCow<'a, B>
default == Res(Moved, Owned(DefaultOwned), 0)

\* equality in the manner of a derived PartialEq: the variants must agree too
eq_derived(c, other) ==
    Res(c, c.tag = other.tag /\ PartialEq(View(c), View(other)), 0)

\* PartialEq::eq(&self, other) -> bool
eq(c, other) == Res(c, PartialEq(View(c), View(other)), deref(c).cl + deref(other).cl)

\* Ord::cmp(&self, other) -> Ordering
cmp(c, other) == Res(c, OrdCmp(View(c), View(other)), deref(c).cl + deref(other).cl)

\* PartialOrd::partial_cmp(&self, other) -> Option<Ordering>
partial_cmp(c, other) ==
    Res(c, PartialOrdCmp(View(c), View(other)), deref(c).cl + deref(other).cl)

\* hashing that feeds the hasher from an owned copy of the view
hash_owned(c, state) == Res(c, HashData(ToOwned(View(c)), state), 1)

\* Hash::hash(&self, state: &mut H); ret is the hasher state afterwards
hash(c, state) == Res(c, HashData(View(c), state), deref(c).cl)

\* ---------------------------------------------------------------- state
Live(s) == cow[s].tag # "Moved"

\* the referent r is exclusively borrowed: a live value of type MuCow<'a, B>
\* has its 'a tied to the borrow of r (a Borrowed instance, or a duplicate of one)
IsBorrowed(r) == \E s \in Slots : Live(s) /\ cow[s].life = r

\* the payload of the active variant: the referent's data, or the held value
ActiveData(c) ==
    IF c.tag = "Borrowed" THEN heap[c.ref]
    ELSE IF c.tag = "Owned" THEN c.val ELSE NoVal

NoDup == <<NoSlot, NoSlot>>

\* the duplicate relation after slot s was consumed, dropped or re-initialised
Forget(s) == IF s \in {dup[1], dup[2]} THEN NoDup ELSE dup

Call(op, s, t, c, arg, ret) ==
    [op |-> op, slot |-> s, other |-> t, pre |-> c, data |-> ActiveData(c),
     arg |-> arg, ret |-> [o \in {op} |-> ret], clones |-> clones,
     later |-> FALSE]

Init ==
    /\ heap \in [Refs -> InitData]
    /\ cow = [s \in Slots |-> Moved]
    /\ clones = 0
    /\ dup = NoDup
    /\ last = [op |-> "none", slot |-> NoSlot, other |-> NoSlot, pre |-> Moved,
               data |-> NoVal, arg |-> 0, ret |-> [o \in {"none"} |-> NoVal],
               clones |-> 0,
               later |-> FALSE]

\* let s = MuCow::Borrowed(&mut r): the exclusive borrow needs r unborrowed
NewBorrowed(s, r) ==
    /\ ~Live(s)
    /\ ~IsBorrowed(r)
    /\ cow' = [cow EXCEPT ![s] = Borrowed(r)]
    /\ last' = Call("Borrowed", s, NoSlot, Moved, 0, Borrowed(r))
    /\ UNCHANGED <<heap, clones, dup>>

\* let s = MuCow::Owned(v)
NewOwned(s, v) ==
    /\ ~Live(s)
    /\ cow' = [cow EXCEPT ![s] = Owned(v)]
    /\ last' = Call("Owned", s, NoSlot, Moved, 0, Owned(v))
    /\ UNCHANGED <<heap, clones, dup>>

\* let s = MuCow::default()
Default(s) ==
    /\ ~Live(s)
    /\ clones + default.cl <= MaxClones
    /\ cow' = [cow EXCEPT ![s] = default.ret]
    /\ clones' = clones + default.cl
    /\ last' = Call("default", s, NoSlot, Moved, 0, default.ret)
    /\ UNCHANGED <<heap, dup>>

\* a method taking &self whose result is only observed
Observe(op, s, t, r) ==
    /\ clones + r.cl <= MaxClones
    /\ cow' = [cow EXCEPT ![s] = r.self]
    /\ clones' = clones + r.cl
    /\ last' = Call(op, s, t, cow[s], 0, r.ret)
    /\ UNCHANGED <<heap, dup>>

Deref(s) == Live(s) /\ Observe("deref", s, NoSlot, deref(cow[s]))

AsRef(s) == Live(s) /\ Observe("as_ref", s, NoSlot, as_ref(cow[s]))

Borrow(s) == Live(s) /\ Observe("borrow", s, NoSlot, borrow(cow[s]))

Eq(s, t) == Live(s) /\ Live(t) /\ Observe("eq", s, t, eq(cow[s], cow[t]))

Cmp(s, t) == Live(s) /\ Live(t) /\ Observe("cmp", s, t, cmp(cow[s], cow[t]))

PartialCmp(s, t) ==
    Live(s) /\ Live(t) /\ Observe("partial_cmp", s, t, partial_cmp(cow[s], cow[t]))

Hash(s) == Live(s) /\ Observe("hash", s, NoSlot, hash(cow[s], <<>>))

\* a method returning &mut B, followed by a push of e through the reference
MutPush(op, s, e, r) ==
    /\ clones + r.cl <= MaxClones
    /\ Len(Load(r.self, r.ret)) < MaxLen
    /\ LET c == r.self
           p == r.ret
           d == Push(Load(c, p), e)
       IN IF p.loc = "heap"
          THEN /\ heap' = [heap EXCEPT ![p.at] = d]
               /\ cow' = [cow EXCEPT ![s] = c]
          ELSE /\ cow' = [cow EXCEPT ![s] = [c EXCEPT !.val = d]]
               /\ heap' = heap
    /\ clones' = clones + r.cl
    /\ last' = Call(op, s, NoSlot, cow[s], e, r.ret)
    /\ UNCHANGED dup

DerefMut(s, e) == Live(s) /\ MutPush("deref_mut", s, e, deref_mut(cow[s]))

BorrowMut(s, e) == Live(s) /\ MutPush("borrow_mut", s, e, borrow_mut(cow[s]))

\* s.into_owned(): the instance is consumed, the value goes to the caller
IntoOwned(s) ==
    /\ Live(s)
    /\ LET r == into_owned(cow[s])
       IN /\ clones + r.cl <= MaxClones
          /\ cow' = [cow EXCEPT ![s] = r.self]
          /\ clones' = clones + r.cl
          /\ last' = Call("into_owned", s, NoSlot, cow[s], 0, r.ret)
    /\ dup' = Forget(s)
    /\ UNCHANGED heap

\* let t = s.clone()
Clone(s, t) ==
    /\ Live(s)
    /\ ~Live(t)
    /\ LET r == clone(cow[s])
       IN /\ clones + r.cl <= MaxClones
          /\ cow' = [cow EXCEPT ![s] = r.self, ![t] = r.ret]
          /\ clones' = clones + r.cl
          /\ last' = Call("clone", s, t, cow[s], 0, r.ret)
    /\ dup' = <<s, t>>
    /\ UNCHANGED heap

\* let cow: Cow<B> = s.into()
IntoCow(s) ==
    /\ Live(s)
    /\ LET r == into(cow[s])
       IN /\ clones + r.cl <= MaxClones
          /\ cow' = [cow EXCEPT ![s] = r.self]
          /\ clones' = clones + r.cl
          /\ last' = Call("into", s, NoSlot, cow[s], 0, r.ret)
    /\ dup' = Forget(s)
    /\ UNCHANGED heap

\* the instance goes out of scope; the borrow its lifetime is tied to ends
\* once no other live value shares it
Drop(s) ==
    /\ Live(s)
    /\ cow' = [cow EXCEPT ![s] = Moved]
    /\ last' = Call("drop", s, NoSlot, cow[s], 0, NoVal)
    /\ dup' = Forget(s)
    /\ UNCHANGED <<heap, clones>>

\* the owner of referent r pushes e to its data, which needs every value whose
\* lifetime is tied to the borrow of r to be dead
OwnerPush(r, e) ==
    /\ ~IsBorrowed(r)
    /\ Len(heap[r]) < MaxLen
    /\ heap' = [heap EXCEPT ![r] = Push(@, e)]
    /\ last' = [last EXCEPT !.later = TRUE]
    /\ UNCHANGED <<cow, clones, dup>>

Next ==
    \/ \E s \in Slots, r \in Refs : NewBorrowed(s, r)
    \/ \E s \in Slots, v \in OwnedData : NewOwned(s, v)
    \/ \E s \in Slots : Default(s)
    \/ \E s \in Slots : Deref(s)
    \/ \E s \in Slots : AsRef(s)
    \/ \E s \in Slots : Borrow(s)
    \/ \E s \in Slots, e \in PushElems : DerefMut(s, e)
    \/ \E s \in Slots, e \in PushElems : BorrowMut(s, e)
    \/ \E s \in Slots : IntoOwned(s)
    \/ \E s \in Slots, t \in Slots : Clone(s, t)
    \/ \E s \in Slots : IntoCow(s)
    \/ \E s \in Slots, t \in Slots : Eq(s, t)
    \/ \E s \in Slots, t \in Slots : Cmp(s, t)
    \/ \E s \in Slots, t \in Slots : PartialCmp(s, t)
    \/ \E s \in Slots : Hash(s)
    \/ \E s \in Slots : Drop(s)
    \/ \E r \in Refs, e \in PushElems : OwnerPush(r, e)

Spec == Init /\ [][Next]_vars

\* ---------------------------------------------------------------- claims
IsCall(op) == last.op = op

\* the value the most recent call returned
Ret == last.ret[last.op]

MutOps == {"deref_mut", "borrow_mut"}
ReadOps == {"deref", "as_ref", "borrow"}

\* C1: into_owned on a Borrowed instance returns a value equal to the referent's
\* data as it was at the call (earlier mutations included), the clone counter
\* has grown by exactly one, and the referent itself is unchanged by the call.
C1_IntoOwnedBorrowed ==
    (IsCall("into_owned") /\ last.pre.tag = "Borrowed") =>
        /\ Ret = last.data
        /\ clones = last.clones + 1
        /\ cow[last.slot] = Moved
        /\ ~last.later => heap[last.pre.ref] = last.data

C1_Witness ==
    /\ IsCall("into_owned")
    /\ last.pre.tag = "Borrowed"
    /\ last.data = <<1, 2, 3, 4>>
    /\ Ret = <<1, 2, 3, 4>>
    /\ clones = 1

\* C2: into_owned on an Owned instance returns the held value itself and the
\* clone counter is unchanged by the call.
C2_IntoOwnedOwned ==
    (IsCall("into_owned") /\ last.pre.tag = "Owned") =>
        /\ Ret = last.pre.val
        /\ clones = last.clones
        /\ cow[last.slot] = Moved

C2_Witness ==
    /\ IsCall("into_owned")
    /\ last.pre.tag = "Owned"
    /\ Ret = <<1, 2, 3>>
    /\ clones = 0

\* C3 as stated: the clone counter grows only in an into_owned call on a
\* Borrowed instance.
C3_OnlyIntoOwnedClones ==
    clones # last.clones => (IsCall("into_owned") /\ last.pre.tag = "Borrowed")

\* C3 as amended: the clone counter grows only in an into_owned call on a
\* Borrowed instance or in a clone (duplicate) call on an instance of either
\* variant, each time by exactly one; no other operation changes it.
C3_OnlyIntoOwnedOrCloneClones ==
    /\ clones # last.clones =>
           /\ clones = last.clones + 1
           /\ \/ IsCall("into_owned") /\ last.pre.tag = "Borrowed"
              \/ IsCall("clone")
    /\ IsCall("clone") => clones = last.clones + 1
    /\ (IsCall("into_owned") /\ last.pre.tag = "Borrowed") => clones = last.clones + 1

C3_Witness ==
    /\ IsCall("clone")
    /\ last.pre.tag = "Owned"
    /\ clones = last.clones + 1

\* C4: a mutation through deref_mut (or borrow_mut) keeps the variant and the
\* clone counter; on a Borrowed instance the pushed element lands in the
\* referent, on an Owned instance in the held value. An into_owned of a Borrowed
\* instance right after such a mutation returns the mutated data with exactly
\* one clone.
C4_MutatedInPlace ==
    (last.op \in MutOps) =>
        /\ clones = last.clones
        /\ cow[last.slot].tag = last.pre.tag
        /\ last.pre.tag = "Borrowed" =>
               /\ cow[last.slot] = last.pre
               /\ heap[last.pre.ref] = Append(last.data, last.arg)
        /\ last.pre.tag = "Owned" =>
               /\ cow[last.slot] = [last.pre EXCEPT !.val = Append(last.pre.val, last.arg)]

C4_ThenIntoOwned ==
    (/\ last.op \in MutOps
     /\ last.pre.tag = "Borrowed"
     /\ IntoOwned(last.slot)) =>
        /\ last'.ret.into_owned = Append(last.data, last.arg)
        /\ clones' = clones + 1
        /\ clones' = last.clones + 1

\* C4: in every state after a deref_mut or borrow_mut call the mutation is in
\* place with no clone and no change of variant, and every into_owned step that
\* follows one on a Borrowed instance returns the mutated data with one clone.
C4_DerefMutNeverClones == [](C4_MutatedInPlace) /\ [][C4_ThenIntoOwned]_vars

C4_Witness ==
    /\ IsCall("deref_mut")
    /\ last.pre.tag = "Borrowed"
    /\ cow[last.slot] = last.pre
    /\ last.data = <<1, 2, 3>>
    /\ last.arg = 4
    /\ heap[last.pre.ref] = <<1, 2, 3, 4>>
    /\ clones = 0

\* C5: clone of an instance of either variant yields an Owned instance holding
\* data equal to the source's data, and the source keeps its variant and data.
C5_CloneIsOwned ==
    IsCall("clone") =>
        /\ cow[last.other].tag = "Owned"
        /\ cow[last.other].val = last.data
        /\ Ret = cow[last.other]
        /\ cow[last.slot] = last.pre
        /\ ActiveData(cow[last.slot]) = last.data

C5_Witness ==
    /\ IsCall("clone")
    /\ last.pre.tag = "Borrowed"
    /\ cow[last.slot].tag = "Borrowed"
    /\ cow[last.other].tag = "Owned"
    /\ cow[last.other].val = <<1, 2, 3, 4>>

\* C6: the conversion into Cow maps Borrowed to Cow::Borrowed of the same
\* referent and Owned to Cow::Owned of the same value, and never clones.
C6_IntoCowKeepsVariant ==
    IsCall("into") =>
        /\ clones = last.clones
        /\ last.pre.tag = "Borrowed" =>
               /\ Ret = CowBorrowed(last.pre.ref)
               /\ ~last.later => heap[last.pre.ref] = last.data
        /\ last.pre.tag = "Owned" => Ret = CowOwned(last.pre.val)

C6_Witness ==
    /\ IsCall("into")
    /\ last.pre.tag = "Borrowed"
    /\ Ret = CowBorrowed(last.pre.ref)
    /\ last.data = <<1, 2, 3, 4>>

\* C7: deref (and as_ref, borrow) never clones, returns a view equal to the
\* active data, and leaves the instance, its data and the clone counter as
\* they were.
C7_DerefIsPure ==
    (last.op \in ReadOps) =>
        /\ clones = last.clones
        /\ cow[last.slot] = last.pre
        /\ ActiveData(cow[last.slot]) = last.data
        /\ Load(cow[last.slot], Ret) = last.data
        /\ last.pre.tag = "Borrowed" => Ret = HeapPlace(last.pre.ref)

C7_Witness ==
    /\ last.op \in ReadOps
    /\ last.pre.tag = "Borrowed"
    /\ last.data = <<1, 2, 3, 4>>
    /\ \E s \in Slots : cow[s].tag = "Owned"

\* C8: equality of two instances is equality of their data whatever their
\* variants, hence reflexive and symmetric; instances with equal data leave
\* equal hasher states; cmp and partial_cmp order two instances as their data.
C8_EqIgnoresVariant ==
    /\ \A s \in Slots, t \in Slots :
           (Live(s) /\ Live(t)) =>
               /\ eq(cow[s], cow[t]).ret = (ActiveData(cow[s]) = ActiveData(cow[t]))
               /\ eq(cow[s], cow[t]).ret = eq(cow[t], cow[s]).ret
               /\ eq(cow[s], cow[s]).ret
               /\ ActiveData(cow[s]) = ActiveData(cow[t]) =>
                      hash(cow[s], <<>>).ret = hash(cow[t], <<>>).ret
               /\ cmp(cow[s], cow[t]).ret = OrdCmp(ActiveData(cow[s]), ActiveData(cow[t]))
               /\ partial_cmp(cow[s], cow[t]).ret =
                      PartialOrdCmp(ActiveData(cow[s]), ActiveData(cow[t]))
    /\ IsCall("eq") => Ret = (last.data = ActiveData(cow[last.other]))
    /\ IsCall("hash") => Ret = HashData(last.data, <<>>)
    /\ IsCall("cmp") => Ret = OrdCmp(last.data, ActiveData(cow[last.other]))

C8_Witness ==
    /\ IsCall("eq")
    /\ last.pre.tag = "Borrowed"
    /\ cow[last.other].tag = "Owned"
    /\ Ret = TRUE
    /\ last.data = <<1, 2, 3, 4>>

\* C9: for an instance of either variant, into_owned of its clone equals
\* into_owned of the instance itself.
C9_RoundTrip ==
    /\ \A s \in Slots :
           Live(s) => into_owned(clone(cow[s]).ret).ret = into_owned(cow[s]).ret
    /\ IsCall("clone") =>
           into_owned(cow[last.other]).ret = into_owned(cow[last.slot]).ret

C9_Witness ==
    /\ IsCall("clone")
    /\ last.pre.tag = "Borrowed"
    /\ into_owned(cow[last.other]).ret = <<1, 2, 3, 4>>
    /\ into_owned(cow[last.slot]).ret = <<1, 2, 3, 4>>

\* C10: while t is the duplicate of s, a mutation through t changes neither the
\* data seen through s nor any referent, and a mutation through s does not
\* change t; more generally a mutation through one instance is seen through no
\* other; and the value into_owned returned for a Borrowed instance stays what
\* it was when the owner later writes to the referent.
Mutates(s) ==
    /\ last'.op \in MutOps
    /\ last'.slot = s
    /\ \E e \in PushElems : DerefMut(s, e) \/ BorrowMut(s, e)

OwnerWrites == last'.later /\ \E r \in Refs, e \in PushElems : OwnerPush(r, e)

C10_Step ==
    /\ \A s \in Slots :
           Mutates(s) =>
               /\ \A t \in Slots \ {s} : cow'[t] = cow[t] /\ ActiveData(cow[t])' = ActiveData(cow[t])
               /\ dup[2] = s =>
                      /\ heap' = heap
                      /\ ActiveData(cow[dup[1]])' = ActiveData(cow[dup[1]])
               /\ dup[1] = s => cow'[dup[2]] = cow[dup[2]]
    /\ OwnerWrites => last'.ret = last.ret /\ cow' = cow

C10_Returned ==
    (IsCall("into_owned") /\ last.pre.tag = "Borrowed") => Ret = last.data

\* C10: every mutating step is confined to the instance it goes through (so a
\* duplicate and its source never see each other's mutations), and a value
\* returned by into_owned keeps the data it was cloned from.
C10_DuplicateIndependent == [](C10_Returned) /\ [][C10_Step]_vars

C10_Witness ==
    /\ last.op \in MutOps
    /\ dup[2] = last.slot
    /\ cow[dup[1]].tag = "Borrowed"
    /\ ActiveData(cow[dup[1]]) = <<1, 2, 3>>
    /\ cow[dup[2]].tag = "Owned"
    /\ cow[dup[2]].val = <<1, 2, 3, 4>>

====
